---- MODULE Spec2Model ----
(***************************************************************************)
(* Voicemail ingestion service (Go): the webhook pipeline, the listing and *)
(* playback endpoints, and the helpers they call.  Strings of the program  *)
(* are sequences of one-character strings, byte slices are sequences of    *)
(* numbers in 0..255, so that the string functions of the program can be   *)
(* computed the way the program computes them.                             *)
(***************************************************************************)
EXTENDS Integers, Sequences, FiniteSets, TLC

(***************************************************************************)
(* Bounds of the model                                                     *)
(***************************************************************************)
\* longest attachment list of a payload
MaxAtt == 2
\* number of requests the server accepts in one behaviour
MaxRequests == 2
\* requests per run of ListSpec
ListRequests == 3

(***************************************************************************)
(* String helpers (package strings, path/filepath)                         *)
(***************************************************************************)
UpperLetters == <<"A","B","C","D","E","F","G","H","I","J","K","L","M","N","O","P","Q","R","S","T","U","V","W","X","Y","Z">>
LowerLetters == <<"a","b","c","d","e","f","g","h","i","j","k","l","m","n","o","p","q","r","s","t","u","v","w","x","y","z">>
Digits == <<"0","1","2","3","4","5","6","7","8","9">>

\* does c occur in the sequence a
InSeq(a, c) == \E i \in 1..Len(a) : a[i] = c

\* position of the first occurrence of c in a (0 if none)
IndexOf(a, c) == IF InSeq(a, c) THEN CHOOSE i \in 1..Len(a) : a[i] = c /\ \A j \in 1..(i-1) : a[j] # c ELSE 0

\* unicode.ToLower on one character
ToLowerChar(c) == IF InSeq(UpperLetters, c) THEN LowerLetters[IndexOf(UpperLetters, c)] ELSE c

\* strings.ToLower
ToLower(s) == [i \in 1..Len(s) |-> ToLowerChar(s[i])]

\* strings.HasSuffix
HasSuffix(s, suffix) == Len(s) >= Len(suffix) /\ SubSeq(s, Len(s) - Len(suffix) + 1, Len(s)) = suffix

\* strings.HasPrefix
HasPrefix(s, prefix) == Len(s) >= Len(prefix) /\ SubSeq(s, 1, Len(prefix)) = prefix

\* strings.TrimSuffix
TrimSuffix(s, suffix) == IF HasSuffix(s, suffix) THEN SubSeq(s, 1, Len(s) - Len(suffix)) ELSE s

\* strings.TrimPrefix
TrimPrefix(s, prefix) == IF HasPrefix(s, prefix) THEN SubSeq(s, Len(prefix) + 1, Len(s)) ELSE s

\* number of leading characters of s that belong to cutset
LeadingIn(s, cutset) == IF \A i \in 1..Len(s) : s[i] \in cutset THEN Len(s) ELSE (CHOOSE i \in 1..Len(s) : s[i] \notin cutset /\ \A j \in 1..(i-1) : s[j] \in cutset) - 1

\* number of trailing characters of s that belong to cutset
TrailingIn(s, cutset) == IF \A i \in 1..Len(s) : s[i] \in cutset THEN Len(s) ELSE Len(s) - (CHOOSE i \in 1..Len(s) : s[i] \notin cutset /\ \A j \in (i+1)..Len(s) : s[j] \in cutset)

\* strings.Trim(s, cutset): drop every leading and trailing character of cutset
Trim(s, cutset) == IF LeadingIn(s, cutset) = Len(s) THEN <<>> ELSE SubSeq(s, LeadingIn(s, cutset) + 1, Len(s) - TrailingIn(s, cutset))

\* the white space of unicode.IsSpace that the model's texts use
WhiteSpace == {" ", "\t", "\n", "\r"}

\* strings.TrimSpace
TrimSpace(s) == Trim(s, WhiteSpace)

\* filepath.Ext: the suffix beginning at the final dot of the final path element
Ext(path) == IF \E i \in 1..Len(path) : path[i] = "." /\ \A j \in i..Len(path) : path[j] # "/" THEN SubSeq(path, CHOOSE i \in 1..Len(path) : path[i] = "." /\ (\A j \in i..Len(path) : path[j] # "/") /\ (\A j \in (i+1)..Len(path) : path[j] # "."), Len(path)) ELSE <<>>

\* filepath.Clean, for the relative paths the program builds: a leading "./" goes
Clean(path) == IF HasPrefix(path, <<".", "/">>) THEN SubSeq(path, 3, Len(path)) ELSE path

\* filepath.Join of a directory and a file name
Join(dir, name) == Clean(dir \o <<"/">> \o name)

\* strconv/fmt %d of a natural number
RECURSIVE Itoa(_)
Itoa(n) == IF n < 10 THEN <<Digits[n + 1]>> ELSE Itoa(n \div 10) \o <<Digits[(n % 10) + 1]>>

(***************************************************************************)
(* encoding/base64                                                         *)
(***************************************************************************)
Base64Common == UpperLetters \o LowerLetters \o Digits
\* base64.StdEncoding alphabet
StdAlphabet == Base64Common \o <<"+", "/">>
\* base64.URLEncoding alphabet
URLAlphabet == Base64Common \o <<"-", "_">>
\* the padding character of both encodings
PadChar == "="

\* Encoding.EncodeToString: three bytes to four characters, padded
RECURSIVE Base64Encode(_, _)
Base64Encode(alphabet, b) ==
    IF Len(b) = 0 THEN <<>>
    ELSE IF Len(b) = 1 THEN
        << alphabet[(b[1] \div 4) + 1], alphabet[((b[1] % 4) * 16) + 1], PadChar, PadChar >>
    ELSE IF Len(b) = 2 THEN
        << alphabet[(b[1] \div 4) + 1], alphabet[((b[1] % 4) * 16) + (b[2] \div 16) + 1],
           alphabet[((b[2] % 16) * 4) + 1], PadChar >>
    ELSE
        << alphabet[(b[1] \div 4) + 1], alphabet[((b[1] % 4) * 16) + (b[2] \div 16) + 1],
           alphabet[((b[2] % 16) * 4) + (b[3] \div 64) + 1], alphabet[(b[3] % 64) + 1] >>
        \o Base64Encode(alphabet, SubSeq(b, 4, Len(b)))

\* the decoder skips carriage returns and line feeds
RECURSIVE StripNewlines(_)
StripNewlines(s) == IF s = <<>> THEN <<>> ELSE IF Head(s) \in {"\r", "\n"} THEN StripNewlines(Tail(s)) ELSE <<Head(s)>> \o StripNewlines(Tail(s))

\* the 6-bit value of a character of the alphabet
Sextet(alphabet, c) == IndexOf(alphabet, c) - 1

\* one quantum of four characters: [ok, bytes, padded]
DecodeQuantum(alphabet, q) ==
    IF \A k \in 1..4 : InSeq(alphabet, q[k]) THEN
        [ok |-> TRUE, padded |-> FALSE,
         bytes |-> << (Sextet(alphabet, q[1]) * 4) + (Sextet(alphabet, q[2]) \div 16),
                      ((Sextet(alphabet, q[2]) % 16) * 16) + (Sextet(alphabet, q[3]) \div 4),
                      ((Sextet(alphabet, q[3]) % 4) * 64) + Sextet(alphabet, q[4]) >>]
    ELSE IF InSeq(alphabet, q[1]) /\ InSeq(alphabet, q[2]) /\ InSeq(alphabet, q[3]) /\ q[4] = PadChar THEN
        [ok |-> TRUE, padded |-> TRUE,
         bytes |-> << (Sextet(alphabet, q[1]) * 4) + (Sextet(alphabet, q[2]) \div 16),
                      ((Sextet(alphabet, q[2]) % 16) * 16) + (Sextet(alphabet, q[3]) \div 4) >>]
    ELSE IF InSeq(alphabet, q[1]) /\ InSeq(alphabet, q[2]) /\ q[3] = PadChar /\ q[4] = PadChar THEN
        [ok |-> TRUE, padded |-> TRUE,
         bytes |-> << (Sextet(alphabet, q[1]) * 4) + (Sextet(alphabet, q[2]) \div 16) >>]
    ELSE [ok |-> FALSE, padded |-> FALSE, bytes |-> <<>>]

\* the quanta of a string already stripped of newlines: [ok, bytes]
RECURSIVE DecodeQuanta(_, _)
DecodeQuanta(alphabet, s) ==
    IF Len(s) = 0 THEN [ok |-> TRUE, bytes |-> <<>>]
    ELSE IF Len(s) < 4 THEN [ok |-> FALSE, bytes |-> <<>>]
    ELSE LET q == DecodeQuantum(alphabet, SubSeq(s, 1, 4))
             rest == SubSeq(s, 5, Len(s))
         IN  IF ~q.ok THEN [ok |-> FALSE, bytes |-> <<>>]
             ELSE IF q.padded THEN (IF rest = <<>> THEN [ok |-> TRUE, bytes |-> q.bytes] ELSE [ok |-> FALSE, bytes |-> <<>>])
             ELSE LET r == DecodeQuanta(alphabet, rest)
                  IN  IF r.ok THEN [ok |-> TRUE, bytes |-> q.bytes \o r.bytes] ELSE [ok |-> FALSE, bytes |-> <<>>]

\* Encoding.DecodeString: [ok, bytes]; ok = FALSE is a CorruptInputError
Base64Decode(alphabet, s) == DecodeQuanta(alphabet, StripNewlines(s))

(***************************************************************************)
(* Character order (ASCII), for the store's ordering of VARCHAR columns    *)
(***************************************************************************)
AsciiLow == <<" ","!","\"","#","$","%","&","'","(",")","*","+",",","-",".","/">> \o Digits \o <<":",";","<","=",">","?","@">> \o UpperLetters \o <<"[","\\","]","^","_">>
AsciiHigh == LowerLetters \o <<"{","|","}","~">>

\* the code point of a character: 32..95, 97..126; control characters sort first
Code(c) == IF InSeq(AsciiLow, c) THEN IndexOf(AsciiLow, c) + 31 ELSE IF InSeq(AsciiHigh, c) THEN IndexOf(AsciiHigh, c) + 96 ELSE 10

\* a < b in the byte-wise order of strings
RECURSIVE StrLess(_, _)
StrLess(a, b) ==
    IF b = <<>> THEN FALSE
    ELSE IF a = <<>> THEN TRUE
    ELSE IF Code(Head(a)) # Code(Head(b)) THEN Code(Head(a)) < Code(Head(b))
    ELSE StrLess(Tail(a), Tail(b))

(***************************************************************************)
(* Program constants and literals                                          *)
(***************************************************************************)
\* const attachmentDir = "./data/mp3s"
attachmentDir == <<".","/","d","a","t","a","/","m","p","3","s">>
\* the audio extension tested by webhookHandler
Mp3Ext == <<".","m","p","3">>
WavExt == <<".","w","a","v">>
TxtExt == <<".","t","x","t">>
\* the sentinel title
UntitledVoicemail == <<"U","n","t","i","t","l","e","d"," ","V","o","i","c","e","m","a","i","l">>
\* the phone number stored when none is extracted
Unknown == <<"U","n","k","n","o","w","n">>
\* the override of extractPhoneNumber
IHateThisMan == <<"I"," ","H","A","T","E"," ","T","H","I","S"," ","M","A","N">>
\* the prefix of the transcription placeholder
TranscriptionFailed == <<"T","r","a","n","s","c","r","i","p","t","i","o","n"," ","f","a","i","l","e","d",":"," ">>
\* the prefix that playHandler trims from the URL path
PlayPrefix == <<"/","a","p","i","/","p","l","a","y","/">>
\* the messages of transcribeAudio's errors
ErrWhisperNotFound == <<"w","h","i","s","p","e","r",".","c","p","p"," ","n","o","t"," ","f","o","u","n","d"," ","i","n"," ","P","A","T","H",":"," ">>
ErrConvert == <<"f","a","i","l","e","d"," ","t","o"," ","c","o","n","v","e","r","t"," ","M","P","3"," ","t","o"," ","W","A","V",":"," ">>
ErrWhisperFailed == <<"w","h","i","s","p","e","r"," ","t","r","a","n","s","c","r","i","p","t","i","o","n"," ","f","a","i","l","e","d",":"," ">>
ErrStderr == <<"\n","s","t","d","e","r","r",":"," ">>
ErrReadTranscription == <<"f","a","i","l","e","d"," ","t","o"," ","r","e","a","d"," ","t","r","a","n","s","c","r","i","p","t","i","o","n"," ","f","i","l","e",":"," ">>

(***************************************************************************)
(* extractPhoneNumber and its regular expression                           *)
(*   \+?1?\s*\(?(\d{3})\)?[-.\s]?(\d{3})[-.\s]?(\d{4})                     *)
(***************************************************************************)
\* \d
IsDigit(c) == InSeq(Digits, c)
\* \s of the regexp package: tab, newline, form feed, carriage return, space
RegexSpace == {"\t", "\n", "\f", "\r", " "}
\* [-.\s]
PhoneSeparators == {"-", "."} \cup RegexSpace

\* the character of s at position p, or the empty string past the end
CharAt(s, p) == IF p >= 1 /\ p <= Len(s) THEN s[p] ELSE ""

\* are the n characters of s from p all digits
DigitsAt(s, p, n) == p + n - 1 <= Len(s) /\ \A k \in p..(p + n - 1) : IsDigit(s[k])

\* position after an optional character of set at p (greedy: taken when present)
SkipOpt(s, p, set) == IF CharAt(s, p) \in set THEN p + 1 ELSE p

\* position after \s* from p (greedy)
SkipSpaces(s, p) == p + LeadingIn(SubSeq(s, p, Len(s)), RegexSpace)

\* \(?(\d{3})\)?[-.\s]?(\d{3})[-.\s]?(\d{4}) from p: [ok, groups]
MatchGroups(s, p) ==
    LET a == SkipOpt(s, p, {"("})
        b == SkipOpt(s, a + 3, {")"})
        c == SkipOpt(s, b, PhoneSeparators)
        d == SkipOpt(s, c + 3, PhoneSeparators)
    IN  IF DigitsAt(s, a, 3) /\ DigitsAt(s, c, 3) /\ DigitsAt(s, d, 4)
        THEN [ok |-> TRUE, groups |-> << SubSeq(s, a, a + 2), SubSeq(s, c, c + 2), SubSeq(s, d, d + 3) >>]
        ELSE [ok |-> FALSE, groups |-> <<>>]

\* the whole expression anchored at p; 1? is tried taken first, then skipped
MatchAt(s, p) ==
    LET afterPlus == SkipOpt(s, p, {"+"})
        withOne == MatchGroups(s, SkipSpaces(s, afterPlus + 1))
        withoutOne == MatchGroups(s, SkipSpaces(s, afterPlus))
    IN  IF CharAt(s, afterPlus) = "1" /\ withOne.ok THEN withOne ELSE withoutOne

\* mutant: the groups of the rightmost match
FindStringSubmatch_Rightmost(s) ==
    IF \E p \in 1..Len(s) : MatchAt(s, p).ok
    THEN MatchAt(s, CHOOSE p \in 1..Len(s) : MatchAt(s, p).ok /\ \A q \in (p + 1)..Len(s) : ~MatchAt(s, q).ok).groups
    ELSE <<>>

\* phoneRegex.FindStringSubmatch: the groups of the leftmost match, <<>> if none
FindStringSubmatch(s) ==
    IF \E p \in 1..Len(s) : MatchAt(s, p).ok
    THEN MatchAt(s, CHOOSE p \in 1..Len(s) : MatchAt(s, p).ok /\ \A q \in 1..(p - 1) : ~MatchAt(s, q).ok).groups
    ELSE <<>>

\* mutant: the first two digits of the last group are compared, not the last two
extractPhoneNumber_FirstTwo(s) ==
    LET matches == FindStringSubmatch(s)
    IN  IF Len(matches) >= 3
        THEN IF matches[1] = <<"7","0","4">> /\ SubSeq(matches[3], 1, 2) = <<"9","0">>
             THEN IHateThisMan
             ELSE <<"(">> \o matches[1] \o <<")", " ">> \o matches[2] \o <<"-">> \o matches[3]
        ELSE <<>>

\* func extractPhoneNumber(s string) string
extractPhoneNumber(s) ==
    LET matches == FindStringSubmatch(s)
    IN  IF Len(matches) >= 3
        THEN IF matches[1] = <<"7","0","4">> /\ SubSeq(matches[3], 3, 4) = <<"9","0">>
             THEN IHateThisMan
             ELSE <<"(">> \o matches[1] \o <<")", " ">> \o matches[2] \o <<"-">> \o matches[3]
        ELSE <<>>

(***************************************************************************)
(* Time: the instants of the model are the seconds of two minutes: 0..59   *)
(* are 15:04:00..59 of Monday 2 January 2006, 60..119 the same minute of   *)
(* Friday 6 January 2006                                                   *)
(***************************************************************************)
\* the days of the model, and the day and the second of an instant
Days == {0, 1}
DayOf(t) == t \div 60
SecondOf(t) == t % 60

\* the text of a day and the hour and minute in the two layouts
IsoPrefix(d) == IF d = 0 THEN <<"2","0","0","6","-","0","1","-","0","2"," ","1","5",":","0","4",":">> ELSE <<"2","0","0","6","-","0","1","-","0","6"," ","1","5",":","0","4",":">>
LongPrefix(d) == IF d = 0 THEN <<"M","o","n","d","a","y",","," ","J","a","n","u","a","r","y"," ","2",","," ","2","0","0","6"," ","a","t"," ","3",":","0","4",":">> ELSE <<"F","r","i","d","a","y",","," ","J","a","n","u","a","r","y"," ","6",","," ","2","0","0","6"," ","a","t"," ","3",":","0","4",":">>
LongSuffix == <<" ","P","M">>

\* a two-digit field of a layout
TwoDigits(n) == << Digits[(n \div 10) + 1], Digits[(n % 10) + 1] >>

\* t.Format("2006-01-02 15:04:05")
FormatIso(t) == IsoPrefix(DayOf(t)) \o TwoDigits(SecondOf(t))

\* t.Format("Monday, January 2, 2006 at 3:04:05 PM")
FormatLong(t) == LongPrefix(DayOf(t)) \o TwoDigits(SecondOf(t)) \o LongSuffix

\* time.Parse("Monday, January 2, 2006 at 3:04:05 PM", s): [ok, t]
ParseLong(s) ==
    IF \E d \in Days :
          /\ Len(s) = Len(LongPrefix(d)) + 2 + Len(LongSuffix)
          /\ HasPrefix(s, LongPrefix(d)) /\ HasSuffix(s, LongSuffix)
          /\ IsDigit(s[Len(LongPrefix(d)) + 1]) /\ IsDigit(s[Len(LongPrefix(d)) + 2])
          /\ IndexOf(Digits, s[Len(LongPrefix(d)) + 1]) <= 6
    THEN LET d == CHOOSE e \in Days : HasPrefix(s, LongPrefix(e))
             hi == IndexOf(Digits, s[Len(LongPrefix(d)) + 1]) - 1
             lo == IndexOf(Digits, s[Len(LongPrefix(d)) + 2]) - 1
         IN  [ok |-> TRUE, t |-> d * 60 + hi * 10 + lo]
    ELSE [ok |-> FALSE, t |-> 0]

(***************************************************************************)
(* Inputs of the environment, drawn from small sets                        *)
(***************************************************************************)
\* the handler goroutines of the model; Spec runs requests one at a time on the first
Handlers == {1, 2}
SeqHandlers == {1}

\* HTTP methods of incoming requests
Methods == {"POST", "GET", "OPTIONS"}

\* subject and receivedAt of incoming emails: a subject without a number and no
\* receivedAt, or a subject with a number and receivedAt as the mail client writes it
Envelopes ==
    { [subject |-> <<"h","i">>, receivedAt |-> <<>>],
      [subject |-> <<"C","a","l","l"," ","m","e"," ","a","t"," ","(","4","1","5",")"," ","5","5","5","-","1","2","3","4">>, receivedAt |-> FormatLong(0)] }

\* attachment file names: an audio name in upper case, and a text file
AudioNames == { <<"V",".","M","P","3">> }
OtherNames == { <<"v",".","m","p","3",".","t","x","t">> }

\* attachment contents: the base64 of the byte 65, and a string that is not base64
Contents == { <<"Q","Q","=","=">>, <<"Q">> }

\* type AttachmentData struct (MimeType is never read)
AttachmentData == [fileName : AudioNames, content : Contents] \cup [fileName : OtherNames, content : {<<"Q","Q","=","=">>}]

\* all sequences over S of length at most n
SeqsUpTo(S, n) == UNION { [1..k -> S] : k \in 0..n }

\* type EmailData struct (Sender is only logged)
EmailData == { [subject |-> e.subject, receivedAt |-> e.receivedAt, attachments |-> a] : e \in Envelopes, a \in SeqsUpTo(AttachmentData, MaxAtt) }

\* the zero value of EmailData
NoEmail == [subject |-> <<>>, receivedAt |-> <<>>, attachments |-> <<>>]

\* request bodies: unreadable, not JSON of the EmailData shape, or an EmailData
Bodies == { [readOk |-> FALSE, parseOk |-> FALSE, email |-> NoEmail], [readOk |-> TRUE, parseOk |-> FALSE, email |-> NoEmail] } \cup { [readOk |-> TRUE, parseOk |-> TRUE, email |-> e] : e \in EmailData }

\* subjects for the phone number extractor: without a number, with one, with the
\* prefix +1, with area code 704 and with a last group that ends in 90 or not,
\* with two numbers, with too few digits, with a leading 1, with a digit too many
UnitSubjects ==
    { <<"h","i">>,
      <<"C","a","l","l"," ","m","e"," ","a","t"," ","(","4","1","5",")"," ","5","5","5","-","1","2","3","4">>,
      <<"+","1"," ","7","0","4",".","5","5","5",".","1","2","9","0">>,
      <<"7","0","4","-","5","5","5","-","1","2","3","4">>,
      <<"4","1","5"," ","5","5","5"," ","1","2","9","0">>,
      <<"7","0","4","5","5","5","9","0","1","2">>,
      <<"4","1","5","5","5","5","1","2","3","4"," ","7","0","4","5","5","5","1","2","9","0">>,
      <<"1","2","3","4","5">>,
      <<"1","4","1","5","5","5","5","1","2","3","4">>,
      <<"1","4","1","5","5","5","1","2","3","4">>,
      <<"5","5","5","-","1","2","3","4">>,
      <<"7","0","4","5","5","5","1","2","9","0","7">> }

\* audio file names of the single-request runs
UnitAudioNames == AudioNames \cup { <<"a",".","m","p","3">> }

\* the bytes and the byte sequences that attachments of the single-request runs encode
UnitBytes == {0, 65, 255}
UnitByteSeqs == SeqsUpTo(UnitBytes, 3)

\* contents that are not base64: a lone character, no padding, a character that
\* is not of the alphabet, padding in front
UnitBadContents == { <<"Q">>, <<"Q","Q">>, <<"Q","!","=","=">>, <<"=","Q","Q","Q">> }

\* the payloads of the single-request runs: every subject with one attachment,
\* and one subject with every attachment
UnitEmails ==
    { [subject |-> s, receivedAt |-> <<>>, attachments |-> << [fileName |-> <<"V",".","M","P","3">>, content |-> <<"Q","Q","=","=">>] >>] : s \in UnitSubjects }
    \cup { [subject |-> <<"h","i">>, receivedAt |-> <<>>, attachments |-> << [fileName |-> n, content |-> c] >>] :
              n \in UnitAudioNames, c \in { Base64Encode(StdAlphabet, b) : b \in UnitByteSeqs } \cup UnitBadContents }

\* the request bodies of the single-request runs
UnitBodies == { [readOk |-> TRUE, parseOk |-> TRUE, email |-> e] : e \in UnitEmails }

\* the payloads of the runs that list: one audio attachment, and a receivedAt
\* that is absent, of the Monday, or of the Friday after it
ListEmails == { [subject |-> <<"h","i">>, receivedAt |-> t, attachments |-> << [fileName |-> <<"V",".","M","P","3">>, content |-> <<"Q","Q","=","=">>] >>] : t \in {<<>>, FormatLong(0), FormatLong(60)} }

\* the request bodies of the runs that list
ListBodies == { [readOk |-> TRUE, parseOk |-> TRUE, email |-> e] : e \in ListEmails }

\* make([]byte, 16) in generateID
IdBytes == 16

\* outcomes of rand.Read in generateID: sixteen bytes, or an error. The bytes of
\* crypto/rand are taken to differ from one call to the next: call n draws n as
\* its last byte
RandReads(n) == { [ok |-> TRUE, b |-> [i \in 1..IdBytes |-> IF i = IdBytes THEN n ELSE 255]], [ok |-> FALSE, b |-> <<>>] }

\* outcomes of os.Create and of file.Write (the number of bytes the disk takes)
SaveOutcomes == [createOk : BOOLEAN, room : {0, 1024}]

\* cause texts of the errors the operating system reports
ExitStatus1 == <<"e","x","i","t"," ","s","t","a","t","u","s"," ","1">>
NotFound == <<"f","i","l","e"," ","d","o","e","s"," ","n","o","t"," ","e","x","i","s","t">>
PermissionDenied == <<"p","e","r","m","i","s","s","i","o","n"," ","d","e","n","i","e","d">>

\* what ffmpeg writes: a waveform (RIFF header bytes)
WavBytes == <<82, 73, 70, 70>>

\* outcomes of exec.LookPath and of the ffmpeg run
TranscodeOutcomes == [lookOk : BOOLEAN, ffmpeg : {"ok", "failed"}]

\* texts the recognizer emits: silence, and speech
Transcripts == { <<" ", "\n">>, <<" ","h","i","\n">> }

\* outcomes of the whisper-cli run: exit status, sidecar written or not, text, read of the sidecar
RecognizeOutcomes == [runOk : BOOLEAN, sidecar : BOOLEAN, readOk : BOOLEAN, text : Transcripts]

\* message contents the title service answers with
TitleContents == { <<>>, <<" ","\"","H","i","\"","\n">>, <<":","H","i">> }

\* responses of the title service: transport error, unreadable body, status, JSON, choices
TitleResponses ==
    { [sent |-> FALSE, readOk |-> FALSE, status |-> 0, parseOk |-> FALSE, choices |-> <<>>],
      [sent |-> TRUE, readOk |-> FALSE, status |-> 200, parseOk |-> FALSE, choices |-> <<>>],
      [sent |-> TRUE, readOk |-> TRUE, status |-> 500, parseOk |-> FALSE, choices |-> <<>>],
      [sent |-> TRUE, readOk |-> TRUE, status |-> 200, parseOk |-> FALSE, choices |-> <<>>],
      [sent |-> TRUE, readOk |-> TRUE, status |-> 200, parseOk |-> TRUE, choices |-> <<>>] }
    \cup { [sent |-> TRUE, readOk |-> TRUE, status |-> 200, parseOk |-> TRUE, choices |-> <<c>>] : c \in TitleContents }

\* message contents of the single-request runs: also a colon followed by a
\* space, quotes around spaces, a colon in front of the quotes, and quotes alone
UnitTitleContents == TitleContents \cup { <<":"," ","H","i">>, <<"\""," ","H","i"," ","\"">>, <<":","\"","H","i","\"">>, <<"'","'">> }

\* the responses of the title service in the single-request runs
UnitTitleResponses == TitleResponses \cup { [sent |-> TRUE, readOk |-> TRUE, status |-> 200, parseOk |-> TRUE, choices |-> <<c>>] : c \in UnitTitleContents }

(***************************************************************************)
(* Files                                                                   *)
(***************************************************************************)
\* the file system is a function from the paths that exist to their contents
Exists(files, path) == path \in DOMAIN files
WriteFile(files, path, content) == [q \in (DOMAIN files) \cup {path} |-> IF q = path THEN content ELSE files[q]]
\* os.Remove: a missing file is an error that the program ignores
Remove(files, path) == [q \in (DOMAIN files) \ {path} |-> files[q]]
NoFiles == [q \in {} |-> <<>>]

\* the first n elements of a sequence, or all of it
Prefix(b, n) == IF n >= Len(b) THEN b ELSE SubSeq(b, 1, n)

(***************************************************************************)
(* Helper functions of the program                                         *)
(***************************************************************************)
\* func generateID() string; now is the reading of the clock
generateID(rnd, now) == IF rnd.ok THEN Base64Encode(URLAlphabet, rnd.b) ELSE Itoa(now)

\* mutant: the content is decoded with base64.URLEncoding
saveAttachment_URLEncoding(files, attachment, filePath, io) ==
    LET content == Base64Decode(URLAlphabet, attachment.content)
    IN  IF ~content.ok THEN [err |-> TRUE, decoded |-> FALSE, created |-> FALSE, files |-> files]
        ELSE IF ~io.createOk THEN [err |-> TRUE, decoded |-> TRUE, created |-> FALSE, files |-> files]
        ELSE IF io.room < Len(content.bytes)
             THEN [err |-> TRUE, decoded |-> TRUE, created |-> TRUE, files |-> WriteFile(files, filePath, Prefix(content.bytes, io.room))]
             ELSE [err |-> FALSE, decoded |-> TRUE, created |-> TRUE, files |-> WriteFile(files, filePath, content.bytes)]

\* func saveAttachment(attachment, filePath) error: [err, decoded, created, files]
saveAttachment(files, attachment, filePath, io) ==
    LET content == Base64Decode(StdAlphabet, attachment.content)
    IN  IF ~content.ok THEN [err |-> TRUE, decoded |-> FALSE, created |-> FALSE, files |-> files]
        ELSE IF ~io.createOk THEN [err |-> TRUE, decoded |-> TRUE, created |-> FALSE, files |-> files]
        ELSE IF io.room < Len(content.bytes)
             THEN [err |-> TRUE, decoded |-> TRUE, created |-> TRUE, files |-> WriteFile(files, filePath, Prefix(content.bytes, io.room))]
             ELSE [err |-> FALSE, decoded |-> TRUE, created |-> TRUE, files |-> WriteFile(files, filePath, content.bytes)]

\* the path of the temporary waveform in transcribeAudio
WavPath(filePath) == TrimSuffix(filePath, Ext(filePath)) \o WavExt

\* the path of the sidecar transcript in transcribeAudio
TranscriptionFile(wavPath) == TrimSuffix(wavPath, Ext(wavPath)) \o TxtExt

\* transcribeAudio up to the start of the recognizer: [done, err, text, files]
transcribeAudioConvert(files, filePath, o) ==
    IF ~o.lookOk THEN [done |-> TRUE, err |-> TRUE, text |-> ErrWhisperNotFound \o NotFound, files |-> files]
    ELSE IF o.ffmpeg = "failed" THEN [done |-> TRUE, err |-> TRUE, text |-> ErrConvert \o ExitStatus1, files |-> files]
    ELSE [done |-> FALSE, err |-> FALSE, text |-> <<>>, files |-> WriteFile(files, WavPath(filePath), WavBytes)]

\* mutant: the waveform is removed at the end of the function, not by a defer
transcribeAudioRecognize_NoDefer(files, filePath, o) ==
    LET wavPath == WavPath(filePath)
        transcriptionFile == TranscriptionFile(wavPath)
        after == IF o.runOk /\ o.sidecar THEN WriteFile(files, transcriptionFile, o.text) ELSE files
    IN  IF ~o.runOk THEN [err |-> TRUE, text |-> ErrWhisperFailed \o ExitStatus1 \o ErrStderr, files |-> after]
        ELSE IF ~Exists(after, transcriptionFile) THEN [err |-> FALSE, text |-> TrimSpace(o.text), files |-> after]
        ELSE IF ~o.readOk THEN [err |-> TRUE, text |-> ErrReadTranscription \o PermissionDenied, files |-> after]
        ELSE [err |-> FALSE, text |-> TrimSpace(after[transcriptionFile]), files |-> Remove(Remove(after, transcriptionFile), wavPath)]

\* transcribeAudio from the recognizer's exit to its return, the deferred
\* removal of the waveform included: [err, text, files]
transcribeAudioRecognize(files, filePath, o) ==
    LET wavPath == WavPath(filePath)
        transcriptionFile == TranscriptionFile(wavPath)
        after == IF o.runOk /\ o.sidecar THEN WriteFile(files, transcriptionFile, o.text) ELSE files
    IN  IF ~o.runOk THEN [err |-> TRUE, text |-> ErrWhisperFailed \o ExitStatus1 \o ErrStderr, files |-> Remove(after, wavPath)]
        ELSE IF ~Exists(after, transcriptionFile) THEN [err |-> FALSE, text |-> TrimSpace(o.text), files |-> Remove(after, wavPath)]
        ELSE IF ~o.readOk THEN [err |-> TRUE, text |-> ErrReadTranscription \o PermissionDenied, files |-> Remove(after, wavPath)]
        ELSE [err |-> FALSE, text |-> TrimSpace(after[transcriptionFile]), files |-> Remove(Remove(after, transcriptionFile), wavPath)]

\* mutant: the default for a title that is empty after the clean-up is missing
CleanTitle_NoDefault(content) == TrimPrefix(Trim(TrimSpace(content), {"\"", "'"}), <<":">>)

\* the clean-up of the title at the end of generateTitle
CleanTitle(content) ==
    LET t1 == TrimSpace(content)
        t2 == Trim(t1, {"\"", "'"})
        t3 == TrimPrefix(t2, <<":">>)
    IN  IF t3 = <<>> THEN UntitledVoicemail ELSE t3

\* mutant: a response without choices gives an empty title with the error
generateTitle_EmptyOnNoChoices(r) ==
    IF ~r.sent THEN [title |-> UntitledVoicemail, err |-> TRUE]
    ELSE IF ~r.readOk THEN [title |-> UntitledVoicemail, err |-> TRUE]
    ELSE IF r.status # 200 THEN [title |-> UntitledVoicemail, err |-> TRUE]
    ELSE IF ~r.parseOk THEN [title |-> UntitledVoicemail, err |-> TRUE]
    ELSE IF Len(r.choices) = 0 THEN [title |-> <<>>, err |-> TRUE]
    ELSE [title |-> CleanTitle(r.choices[1]), err |-> FALSE]

\* func generateTitle(transcription string) (string, error): [title, err]
generateTitle(r) ==
    IF ~r.sent THEN [title |-> UntitledVoicemail, err |-> TRUE]
    ELSE IF ~r.readOk THEN [title |-> UntitledVoicemail, err |-> TRUE]
    ELSE IF r.status # 200 THEN [title |-> UntitledVoicemail, err |-> TRUE]
    ELSE IF ~r.parseOk THEN [title |-> UntitledVoicemail, err |-> TRUE]
    ELSE IF Len(r.choices) = 0 THEN [title |-> UntitledVoicemail, err |-> TRUE]
    ELSE [title |-> CleanTitle(r.choices[1]), err |-> FALSE]

(***************************************************************************)
(* State                                                                   *)
(***************************************************************************)
VARIABLES
    db,           \* the recordings table: a set of rows, id is the primary key
    fs,           \* the files on disk: path -> content
    served,       \* number of requests accepted so far
    pc,           \* per handler: where its request stands
    req,          \* per handler: the request (route, method, URL path)
    email,        \* per handler: webhookHandler's email
    phoneNumber,  \* per handler: webhookHandler's phoneNumber
    idx,          \* per handler: position of webhookHandler's loop in email.Attachments
    recordingID,  \* per handler: webhookHandler's recordingID
    recording,    \* per handler: webhookHandler's recording
    resp,         \* per handler: the response written
    body,         \* per handler: what the request body turned out to be
    entry,        \* per handler: the table and the files as they were when the request came in
    events        \* per handler: the calls the request has made and their results, in order

vars == <<db, fs, served, pc, req, email, phoneNumber, idx, recordingID, recording, resp, body, entry, events>>

\* the zero value of type Recording struct
NoRecording == [id |-> <<>>, phoneNumber |-> <<>>, receivedAt |-> <<>>, mp3FileName |-> <<>>, filePath |-> <<>>, fileSize |-> 0, transcription |-> <<>>, title |-> <<>>]

\* nothing written to the http.ResponseWriter yet
NoResponse == [status |-> 0, result |-> "", id |-> <<>>, jsonNull |-> FALSE, recordings |-> <<>>, file |-> <<>>, contentType |-> "", disposition |-> ""]

\* a response that is a status line and an error text
ErrorResponse(status) == [NoResponse EXCEPT !.status = status]

\* no request yet; n is the number of the request in the order of arrival
NoRequest == [route |-> "", method |-> "", path |-> <<>>, n |-> 0]

\* time.Now(): the clock of the model advances by a second with every request
\* accepted, so requests that run at the same time can read the same time
Now == served

\* the number of the call of generateID made by request n for its attachment i
CallNumber(n, i) == (n - 1) * MaxAtt + i

\* the ids the program can generate
PossibleIDs == { generateID(r, t) : r \in UNION { RandReads(c) : c \in 1..CallNumber(MaxRequests, MaxAtt) }, t \in 1..MaxRequests }

\* the requests of the model: the three routes of main, ids asked of the play route
Requests ==
    { [route |-> "webhook", method |-> m, path |-> <<>>] : m \in Methods }
    \cup { [route |-> "recordings", method |-> m, path |-> <<>>] : m \in Methods }
    \cup { [route |-> "play", method |-> m, path |-> PlayPrefix \o id] : m \in Methods, id \in PossibleIDs \cup {<<>>} }

\* an entry of the request's log: what happened, for which attachment, with which text
Event(name, i, val) == [ev |-> name, att |-> i, val |-> val]

Init ==
    /\ db = {}
    /\ fs = NoFiles
    /\ served = 0
    /\ pc = [h \in Handlers |-> "idle"]
    /\ req = [h \in Handlers |-> NoRequest]
    /\ email = [h \in Handlers |-> NoEmail]
    /\ phoneNumber = [h \in Handlers |-> <<>>]
    /\ idx = [h \in Handlers |-> 0]
    /\ recordingID = [h \in Handlers |-> <<>>]
    /\ recording = [h \in Handlers |-> NoRecording]
    /\ resp = [h \in Handlers |-> NoResponse]
    /\ body = [h \in Handlers |-> ""]
    /\ entry = [h \in Handlers |-> [db |-> {}, fs |-> NoFiles]]
    /\ events = [h \in Handlers |-> <<>>]

(***************************************************************************)
(* The server accepts a request and routes it (main, corsMiddleware)       *)
(***************************************************************************)
\* the server takes a request while fewer than max have arrived
AcceptWithin(h, max) ==
    /\ pc[h] \in {"idle", "done"}
    /\ served < max
    /\ \E r \in Requests :
        /\ req' = [req EXCEPT ![h] = [route |-> r.route, method |-> r.method, path |-> r.path, n |-> served + 1]]
        /\ IF r.method = "OPTIONS"
           THEN /\ pc' = [pc EXCEPT ![h] = "done"]
                /\ resp' = [resp EXCEPT ![h] = ErrorResponse(200)]
           ELSE /\ pc' = [pc EXCEPT ![h] = r.route]
                /\ resp' = [resp EXCEPT ![h] = NoResponse]
    /\ served' = served + 1
    /\ email' = [email EXCEPT ![h] = NoEmail]
    /\ phoneNumber' = [phoneNumber EXCEPT ![h] = <<>>]
    /\ idx' = [idx EXCEPT ![h] = 0]
    /\ recordingID' = [recordingID EXCEPT ![h] = <<>>]
    /\ recording' = [recording EXCEPT ![h] = NoRecording]
    /\ events' = [events EXCEPT ![h] = <<>>]
    /\ body' = [body EXCEPT ![h] = ""]
    /\ entry' = [entry EXCEPT ![h] = [db |-> db, fs |-> fs]]
    /\ UNCHANGED <<db, fs>>

Accept(h) == AcceptWithin(h, MaxRequests)

(***************************************************************************)
(* webhookHandler                                                          *)
(***************************************************************************)
\* mutant: the method check is missing
webhookEntry_AnyMethod(method, b) ==
    IF ~b.readOk THEN 500
    ELSE IF ~b.parseOk THEN 400
    ELSE 0

\* mutant: the return after the JSON error is missing
webhookEntry_NoReturn(method, b) ==
    IF method # "POST" THEN 405
    ELSE IF ~b.readOk THEN 500
    ELSE 0

\* the checks at the head of webhookHandler: the status of the error response, or
\* 0 when the request goes on to the attachment loop
webhookEntry(method, b) ==
    IF method # "POST" THEN 405
    ELSE IF ~b.readOk THEN 500
    ELSE IF ~b.parseOk THEN 400
    ELSE 0

\* what a body is to the reader: unreadable, malformed, or JSON of the EmailData shape
BodyKind(b) == IF ~b.readOk THEN "unreadable" ELSE IF ~b.parseOk THEN "malformed" ELSE "json"

\* from the method check to the start of the attachment loop, the body of the
\* request being one of bodies
WebhookStartFrom(h, bodies) ==
    /\ pc[h] = "webhook"
    /\ \E b \in bodies :
        /\ body' = [body EXCEPT ![h] = BodyKind(b)]
        /\ IF webhookEntry(req[h].method, b) # 0
           THEN /\ resp' = [resp EXCEPT ![h] = ErrorResponse(webhookEntry(req[h].method, b))]
                /\ pc' = [pc EXCEPT ![h] = "done"]
                /\ UNCHANGED <<email, phoneNumber, idx>>
           ELSE /\ email' = [email EXCEPT ![h] = IF b.email.receivedAt = <<>> THEN [b.email EXCEPT !.receivedAt = FormatIso(Now)] ELSE b.email]
                /\ phoneNumber' = [phoneNumber EXCEPT ![h] = IF extractPhoneNumber(b.email.subject) = <<>> THEN Unknown ELSE extractPhoneNumber(b.email.subject)]
                /\ idx' = [idx EXCEPT ![h] = 1]
                /\ pc' = [pc EXCEPT ![h] = "loop"]
                /\ UNCHANGED resp
    /\ UNCHANGED <<db, fs, served, req, recordingID, recording, entry, events>>

\* from the method check to the start of the attachment loop
WebhookStart(h) == WebhookStartFrom(h, Bodies)

\* mutant: strings.Contains in place of strings.HasSuffix
IsMp3_Contains(fileName) == \E i \in 1..Len(fileName) : HasPrefix(SubSeq(ToLower(fileName), i, Len(fileName)), Mp3Ext)

\* is the file name an audio name
IsMp3(fileName) == HasSuffix(ToLower(fileName), Mp3Ext)

\* mutant: the directory and the name are concatenated, not joined
FilePath_Concat(id) == attachmentDir \o id \o Mp3Ext

\* the path the attachment is saved at
FilePath(id) == Join(attachmentDir, id \o Mp3Ext)

\* one iteration of the loop over email.Attachments, up to the call of
\* transcribeAudio; or the end of the loop
WebhookLoop(h) ==
    /\ pc[h] = "loop"
    /\ IF idx[h] > Len(email[h].attachments)
       THEN /\ pc' = [pc EXCEPT ![h] = "respond"]
            /\ UNCHANGED <<fs, idx, recordingID, recording, events>>
       ELSE LET attachment == email[h].attachments[idx[h]] IN
            IF ~IsMp3(attachment.fileName)
            THEN /\ idx' = [idx EXCEPT ![h] = idx[h] + 1]
                 /\ UNCHANGED <<fs, pc, recordingID, recording, events>>
            ELSE \E rnd \in RandReads(CallNumber(req[h].n, idx[h])) : \E io \in SaveOutcomes : \E statOk \in BOOLEAN :
                 LET id == generateID(rnd, Now)
                     filePath == FilePath(id)
                     saved == saveAttachment(fs, attachment, filePath, io)
                     called == <<Event("saveAttachment", idx[h], <<>>)>>
                                 \o (IF saved.decoded THEN <<Event("decoded", idx[h], <<>>)>> ELSE <<>>)
                                 \o (IF saved.created THEN <<Event("created", idx[h], <<>>)>> ELSE <<>>)
                                 \o (IF saved.err THEN <<Event("saveError", idx[h], <<>>)>> ELSE IF ~statOk THEN <<Event("statError", idx[h], <<>>)>> ELSE <<>>)
                 IN  /\ recordingID' = [recordingID EXCEPT ![h] = id]
                     /\ fs' = saved.files
                     /\ IF saved.err \/ ~statOk
                        THEN /\ idx' = [idx EXCEPT ![h] = idx[h] + 1]
                             /\ events' = [events EXCEPT ![h] = events[h] \o called]
                             /\ UNCHANGED <<pc, recording>>
                        ELSE /\ recording' = [recording EXCEPT ![h] =
                                    [id |-> id, phoneNumber |-> phoneNumber[h], receivedAt |-> email[h].receivedAt,
                                     mp3FileName |-> attachment.fileName, filePath |-> filePath,
                                     fileSize |-> Len(saved.files[filePath]), transcription |-> <<>>, title |-> <<>>]]
                             /\ events' = [events EXCEPT ![h] = events[h] \o called \o <<Event("transcribeAudio", idx[h], <<>>)>>]
                             /\ pc' = [pc EXCEPT ![h] = "transcode"]
                             /\ UNCHANGED idx
    /\ UNCHANGED <<db, served, req, email, phoneNumber, resp, body, entry>>

\* mutant: the title is generated after a failed transcription too
AfterTranscribe_TitleOnError(h, r) ==
    IF r.err
    THEN /\ recording' = [recording EXCEPT ![h].transcription = TranscriptionFailed \o r.text, ![h].title = UntitledVoicemail]
         /\ events' = [events EXCEPT ![h] = events[h] \o <<Event("transcribeError", idx[h], <<>>)>>]
         /\ pc' = [pc EXCEPT ![h] = "title"]
    ELSE IF r.text # <<>>
    THEN /\ recording' = [recording EXCEPT ![h].transcription = r.text]
         /\ events' = [events EXCEPT ![h] = events[h] \o <<Event("transcribeOk", idx[h], <<>>)>>]
         /\ pc' = [pc EXCEPT ![h] = "title"]
    ELSE /\ recording' = [recording EXCEPT ![h].transcription = r.text, ![h].title = UntitledVoicemail]
         /\ events' = [events EXCEPT ![h] = events[h] \o <<Event("transcribeOk", idx[h], <<>>)>>]
         /\ pc' = [pc EXCEPT ![h] = "insert"]

\* mutant: the test for an empty transcription is missing
AfterTranscribe_NoEmptyCheck(h, r) ==
    IF r.err
    THEN /\ recording' = [recording EXCEPT ![h].transcription = TranscriptionFailed \o r.text, ![h].title = UntitledVoicemail]
         /\ events' = [events EXCEPT ![h] = events[h] \o <<Event("transcribeError", idx[h], <<>>)>>]
         /\ pc' = [pc EXCEPT ![h] = "insert"]
    ELSE /\ recording' = [recording EXCEPT ![h].transcription = r.text]
         /\ events' = [events EXCEPT ![h] = events[h] \o <<Event("transcribeOk", idx[h], <<>>)>>]
         /\ pc' = [pc EXCEPT ![h] = "title"]

\* mutant: after a failed transcription the handler answers without the insert
AfterTranscribe_RespondOnError(h, r) ==
    IF r.err
    THEN /\ recording' = [recording EXCEPT ![h].transcription = TranscriptionFailed \o r.text, ![h].title = UntitledVoicemail]
         /\ events' = [events EXCEPT ![h] = events[h] \o <<Event("transcribeError", idx[h], <<>>)>>]
         /\ pc' = [pc EXCEPT ![h] = "respond"]
    ELSE IF r.text # <<>>
    THEN /\ recording' = [recording EXCEPT ![h].transcription = r.text]
         /\ events' = [events EXCEPT ![h] = events[h] \o <<Event("transcribeOk", idx[h], <<>>)>>]
         /\ pc' = [pc EXCEPT ![h] = "title"]
    ELSE /\ recording' = [recording EXCEPT ![h].transcription = r.text, ![h].title = UntitledVoicemail]
         /\ events' = [events EXCEPT ![h] = events[h] \o <<Event("transcribeOk", idx[h], <<>>)>>]
         /\ pc' = [pc EXCEPT ![h] = "insert"]

\* what webhookHandler does with the result of transcribeAudio
AfterTranscribe(h, r) ==
    IF r.err
    THEN /\ recording' = [recording EXCEPT ![h].transcription = TranscriptionFailed \o r.text, ![h].title = UntitledVoicemail]
         /\ events' = [events EXCEPT ![h] = events[h] \o <<Event("transcribeError", idx[h], <<>>)>>]
         /\ pc' = [pc EXCEPT ![h] = "insert"]
    ELSE IF r.text # <<>>
    THEN /\ recording' = [recording EXCEPT ![h].transcription = r.text]
         /\ events' = [events EXCEPT ![h] = events[h] \o <<Event("transcribeOk", idx[h], <<>>)>>]
         /\ pc' = [pc EXCEPT ![h] = "title"]
    ELSE /\ recording' = [recording EXCEPT ![h].transcription = r.text, ![h].title = UntitledVoicemail]
         /\ events' = [events EXCEPT ![h] = events[h] \o <<Event("transcribeOk", idx[h], <<>>)>>]
         /\ pc' = [pc EXCEPT ![h] = "insert"]

\* transcribeAudio: the look-up of the recognizer and the ffmpeg run
Transcode(h) ==
    /\ pc[h] = "transcode"
    /\ \E o \in TranscodeOutcomes :
        LET r == transcribeAudioConvert(fs, recording[h].filePath, o)
        IN  /\ fs' = r.files
            /\ IF r.done
               THEN AfterTranscribe(h, r)
               ELSE /\ pc' = [pc EXCEPT ![h] = "recognize"]
                    /\ UNCHANGED <<recording, events>>
    /\ UNCHANGED <<db, served, req, email, phoneNumber, idx, recordingID, resp, body, entry>>

\* transcribeAudio: the whisper-cli run returns, the transcript is extracted
Recognize(h) ==
    /\ pc[h] = "recognize"
    /\ \E o \in RecognizeOutcomes :
        LET r == transcribeAudioRecognize(fs, recording[h].filePath, o)
        IN  /\ fs' = r.files
            /\ AfterTranscribe(h, r)
    /\ UNCHANGED <<db, served, req, email, phoneNumber, idx, recordingID, resp, body, entry>>

\* what webhookHandler does with the result of generateTitle
AfterTitle(h, t) ==
    /\ recording' = [recording EXCEPT ![h].title = IF t.err THEN UntitledVoicemail ELSE t.title]
    /\ events' = [events EXCEPT ![h] = events[h] \o <<Event("generateTitle", idx[h], <<>>), Event(IF t.err THEN "titleError" ELSE "titleOk", idx[h], t.title)>>]

\* the call of generateTitle, its HTTP exchange and its return, the title
\* service answering with one of responses
TitleFrom(h, responses) ==
    /\ pc[h] = "title"
    /\ \E r \in responses : AfterTitle(h, generateTitle(r))
    /\ pc' = [pc EXCEPT ![h] = "insert"]
    /\ UNCHANGED <<db, fs, served, req, email, phoneNumber, idx, recordingID, resp, body, entry>>

\* the call of generateTitle
Title(h) == TitleFrom(h, TitleResponses)

\* mutant: the id column is not a primary key
InsertFails_NoKey(rows, rec, storeOk) == ~storeOk

\* INSERT INTO recordings: fails on a duplicate primary key or when the store fails
InsertFails(rows, rec, storeOk) == ~storeOk \/ \E r \in rows : r.id = rec.id

\* mutant: the file name is bound to the id column
InsertRow_WrongKey(rows, rec, storeOk) == IF InsertFails(rows, rec, storeOk) THEN rows ELSE rows \cup {[rec EXCEPT !.id = rec.mp3FileName]}

\* the table after the insert
InsertRow(rows, rec, storeOk) == IF InsertFails(rows, rec, storeOk) THEN rows ELSE rows \cup {rec}

\* mutant: the break is missing, the loop goes on to the next attachment
AfterInsert_NoBreak(i, failed) == [pc |-> "loop", idx |-> i + 1]

\* mutant: a failed insert continues the loop, like a failed save
AfterInsert_ContinueOnFailure(i, failed) == IF failed THEN [pc |-> "loop", idx |-> i + 1] ELSE [pc |-> "respond", idx |-> i]

\* mutant: a failed insert ends the handler without a response
AfterInsert_Halt(i, failed) == IF failed THEN [pc |-> "halted", idx |-> i] ELSE [pc |-> "respond", idx |-> i]

\* after the insert the loop is left (break), whether the insert failed or not
AfterInsert(i, failed) == [pc |-> "respond", idx |-> i]

\* db.Exec of the insert, then the break out of the loop
Insert(h) ==
    /\ pc[h] = "insert"
    /\ \E storeOk \in BOOLEAN :
        /\ db' = InsertRow(db, recording[h], storeOk)
        /\ events' = [events EXCEPT ![h] = events[h] \o <<Event(IF InsertFails(db, recording[h], storeOk) THEN "insertFailed" ELSE "inserted", idx[h], <<>>)>>]
        /\ pc' = [pc EXCEPT ![h] = AfterInsert(idx[h], InsertFails(db, recording[h], storeOk)).pc]
        /\ idx' = [idx EXCEPT ![h] = AfterInsert(idx[h], InsertFails(db, recording[h], storeOk)).idx]
    /\ UNCHANGED <<fs, served, req, email, phoneNumber, recordingID, recording, resp, body, entry>>

\* mutant: a request that processed no attachment is answered with an error
WebhookResponse_ErrorOnNoId(id) == IF id = <<>> THEN ErrorResponse(500) ELSE [NoResponse EXCEPT !.status = 201, !.result = "success", !.id = id, !.contentType = "text/plain; charset=utf-8"]

\* the success response at the end of webhookHandler; the Content-Type set after
\* WriteHeader is not sent, the server sniffs the body
WebhookResponse(id) == [NoResponse EXCEPT !.status = 201, !.result = "success", !.id = id, !.contentType = "text/plain; charset=utf-8"]

Respond(h) ==
    /\ pc[h] = "respond"
    /\ resp' = [resp EXCEPT ![h] = WebhookResponse(recordingID[h])]
    /\ pc' = [pc EXCEPT ![h] = "done"]
    /\ UNCHANGED <<db, fs, served, req, email, phoneNumber, idx, recordingID, recording, body, entry, events>>

(***************************************************************************)
(* recordingsHandler                                                       *)
(***************************************************************************)
\* the orders in which SELECT ... ORDER BY received_at DESC can return the rows
QueryAll(rows) ==
    { q \in [1..Cardinality(rows) -> rows] :
        /\ \A i, j \in 1..Cardinality(rows) : i # j => q[i] # q[j]
        /\ \A i \in 1..(Cardinality(rows) - 1) : ~StrLess(q[i].receivedAt, q[i + 1].receivedAt) }

\* the receivedAt of a listed recording: re-rendered, or the current time
RenderReceivedAt(receivedAt, now) == IF ParseLong(receivedAt).ok THEN FormatIso(ParseLong(receivedAt).t) ELSE FormatIso(now)

\* the loop over the rows: a nil slice until the first append
ScanRows(q, now) == [nil |-> Len(q) = 0, items |-> [i \in 1..Len(q) |-> [q[i] EXCEPT !.receivedAt = RenderReceivedAt(q[i].receivedAt, now)]]]

\* mutant: the nil slice is encoded as it is
ListResponse_NilSlice(q, now) == [NoResponse EXCEPT !.status = 200, !.jsonNull = ScanRows(q, now).nil, !.recordings = ScanRows(q, now).items, !.contentType = "application/json"]

\* the JSON array written by recordingsHandler
ListResponse(q, now) ==
    LET scanned == ScanRows(q, now)
        recordings == IF scanned.nil THEN [nil |-> FALSE, items |-> <<>>] ELSE scanned
    IN  [NoResponse EXCEPT !.status = 200, !.jsonNull = recordings.nil, !.recordings = recordings.items, !.contentType = "application/json"]

RecordingsHandler(h) ==
    /\ pc[h] = "recordings"
    /\ IF req[h].method = "GET"
       THEN \E queryOk \in BOOLEAN :
            IF ~queryOk
            THEN resp' = [resp EXCEPT ![h] = ErrorResponse(500)]
            ELSE \E q \in QueryAll(db) :
                 resp' = [resp EXCEPT ![h] = ListResponse(q, Now)]
       ELSE resp' = [resp EXCEPT ![h] = ErrorResponse(405)]
    /\ pc' = [pc EXCEPT ![h] = "done"]
    /\ UNCHANGED <<db, fs, served, req, email, phoneNumber, idx, recordingID, recording, body, entry, events>>

(***************************************************************************)
(* playHandler                                                             *)
(***************************************************************************)
\* SELECT file_path FROM recordings WHERE id = ?: [found, filePath]
QueryFilePath(rows, id, storeOk) ==
    IF storeOk /\ \E r \in rows : r.id = id
    THEN [found |-> TRUE, filePath |-> (CHOOSE r \in rows : r.id = id).filePath]
    ELSE [found |-> FALSE, filePath |-> <<>>]

\* the response of playHandler
PlayResponse(rows, files, path, storeOk) ==
    LET id == TrimPrefix(path, PlayPrefix)
        row == QueryFilePath(rows, id, storeOk)
    IN  IF id = <<>> THEN ErrorResponse(400)
        ELSE IF ~row.found THEN ErrorResponse(404)
        ELSE IF ~Exists(files, row.filePath) THEN ErrorResponse(404)
        ELSE [NoResponse EXCEPT !.status = 200, !.file = files[row.filePath], !.contentType = "audio/mpeg", !.disposition = "inline"]

PlayHandler(h) ==
    /\ pc[h] = "play"
    /\ \E storeOk \in BOOLEAN : resp' = [resp EXCEPT ![h] = PlayResponse(db, fs, req[h].path, storeOk)]
    /\ pc' = [pc EXCEPT ![h] = "done"]
    /\ UNCHANGED <<db, fs, served, req, email, phoneNumber, idx, recordingID, recording, body, entry, events>>

(***************************************************************************)
(* Specification: requests are served one at a time                        *)
(***************************************************************************)
Step(h) ==
    \/ Accept(h)
    \/ WebhookStart(h)
    \/ WebhookLoop(h)
    \/ Transcode(h)
    \/ Recognize(h)
    \/ Title(h)
    \/ Insert(h)
    \/ Respond(h)
    \/ RecordingsHandler(h)
    \/ PlayHandler(h)

Next == \E h \in SeqHandlers : Step(h)

Spec == Init /\ [][Next]_vars

\* the requests that run at the same time in ConcSpec: a POST to the webhook with
\* one audio attachment, a GET of the list, a GET of the play route
ConcRequest(h) ==
    /\ req[h].route = "webhook" => req[h].method = "POST" /\ body[h] \in {"", "json"}
    /\ req[h].route \in {"recordings", "play"} => req[h].method = "GET"
    /\ pc[h] \notin {"idle", "webhook"} /\ req[h].route = "webhook" =>
        /\ Len(email[h].attachments) = 1
        /\ email[h].attachments[1].fileName \in AudioNames
        /\ email[h].subject = <<"h","i">>

\* net/http runs every request on a goroutine of its own: the steps of the
\* handlers interleave
ConcNext == \E h \in Handlers : Step(h) /\ ConcRequest(h)'

ConcSpec == Init /\ [][ConcNext]_vars

\* the steps of the runs that list: POSTs to the webhook whose payload is one of
\* ListEmails, on a machine where transcribeAudio fails before the recognizer
\* runs, and GETs of the list
ListStep(h) ==
    \/ AcceptWithin(h, ListRequests) /\ ((req'[h].route = "webhook" /\ req'[h].method = "POST") \/ (req'[h].route = "recordings" /\ req'[h].method = "GET"))
    \/ WebhookStartFrom(h, ListBodies)
    \/ WebhookLoop(h)
    \/ Transcode(h) /\ pc'[h] = "insert"
    \/ Insert(h)
    \/ Respond(h)
    \/ RecordingsHandler(h)

ListNext == \E h \in SeqHandlers : ListStep(h)

\* up to ListRequests requests, one at a time: voicemails of two days, then the list
ListSpec == Init /\ [][ListNext]_vars

\* the steps of one POST to the webhook whose payload is one of UnitEmails
UnitStep(h) ==
    \/ Accept(h) /\ served = 0 /\ req'[h].route = "webhook" /\ req'[h].method = "POST"
    \/ WebhookStartFrom(h, UnitBodies)
    \/ WebhookLoop(h)
    \/ Transcode(h)
    \/ Recognize(h)
    \/ TitleFrom(h, UnitTitleResponses)
    \/ Insert(h)
    \/ Respond(h)

UnitNext == \E h \in SeqHandlers : UnitStep(h)

\* one request on an empty table, with the wider choice of subjects and contents
UnitSpec == Init /\ [][UnitNext]_vars

\* the request bodies of the run with fairness: unreadable, malformed, and the
\* payloads without a phone number in the subject
LiveBodies == { b \in Bodies : ~b.parseOk \/ b.email.subject = <<"h","i">> }

\* the steps of one POST to the webhook whose body is one of LiveBodies
LiveStep(h) ==
    \/ Accept(h) /\ served = 0 /\ req'[h].route = "webhook" /\ req'[h].method = "POST"
    \/ WebhookStartFrom(h, LiveBodies)
    \/ WebhookLoop(h)
    \/ Transcode(h)
    \/ Recognize(h)
    \/ Title(h)
    \/ Insert(h)
    \/ Respond(h)

LiveNext == \E h \in SeqHandlers : LiveStep(h)

\* the goroutine of a request runs on until it returns, and db.Exec returns:
\* every step of the handler that is its own is taken in the end. The runs of
\* ffmpeg and of whisper-cli and the HTTP exchange of generateTitle are started
\* without a deadline the handler controls, and nothing makes them return
HandlerFairness == \A h \in SeqHandlers : WF_vars(WebhookStartFrom(h, LiveBodies)) /\ WF_vars(WebhookLoop(h)) /\ WF_vars(Insert(h)) /\ WF_vars(Respond(h))

\* one request, with the scheduling of its goroutine
LiveSpec == Init /\ [][LiveNext]_vars /\ HandlerFairness

(***************************************************************************)
(* Properties                                                              *)
(***************************************************************************)
\* the request of handler h is a POST to the webhook
Posted(h) == req[h].route = "webhook" /\ req[h].method = "POST"

\* the response of handler h's request has been written
Finished(h) == pc[h] = "done"

\* the request is a POST to the webhook whose body parsed as an EmailData
ParsedPayload(h) == Posted(h) /\ body[h] = "json"

\* the positions of the payload's attachments that carry an audio file name
AudioIdx(h) == { i \in 1..Len(email[h].attachments) : email[h].attachments[i].fileName \in AudioNames }

\* the request has logged an event of this name
HasEvent(h, name) == \E k \in 1..Len(events[h]) : events[h][k].ev = name

\* the attachments for which the request has logged an event of this name
EventAtts(h, name) == { events[h][k].att : k \in { n \in 1..Len(events[h]) : events[h][n].ev = name } }

\* the number of events of this name
EventCount(h, name) == Cardinality({ k \in 1..Len(events[h]) : events[h][k].ev = name })

\* the only audio attachment of the request could not be saved
OnlyAudioNotSaved(h) == ParsedPayload(h) /\ Cardinality(AudioIdx(h)) = 1 /\ (HasEvent(h, "saveError") \/ HasEvent(h, "statError"))

\* a successful list response holds a recording with this id whose fields satisfy P
ListedWith(id, P(_)) == \A q \in QueryAll(db) : \E i \in 1..Len(q) : ListResponse(q, Now).recordings[i].id = id /\ P(ListResponse(q, Now).recordings[i])

\* the point lookup of the play endpoint finds this id
LookedUp(id) == QueryFilePath(db, id, TRUE).found

\* every field of a recording is populated
AllPopulated(r) == r.id # <<>> /\ r.phoneNumber # <<>> /\ r.receivedAt # <<>> /\ r.mp3FileName # <<>> /\ r.filePath # <<>> /\ r.fileSize > 0 /\ r.transcription # <<>> /\ r.title # <<>>

\* every field of a recording but the transcription and the size is non-empty
PopulatedButText(r) == r.id # <<>> /\ r.phoneNumber # <<>> /\ r.receivedAt # <<>> /\ r.mp3FileName # <<>> /\ r.filePath # <<>> /\ r.title # <<>>

\* C1 (as claimed): when the only audio attachment of a POST cannot be saved, the
\* response is 201 with an empty id and no record is inserted
C1_EmptyIdWhenNotSaved == \A h \in Handlers : Finished(h) /\ OnlyAudioNotSaved(h) => resp[h].status = 201 /\ resp[h].id = <<>> /\ db = entry[h].db

FirstAudio(h) == CHOOSE i \in AudioIdx(h) : \A j \in AudioIdx(h) : i <= j

SaveEvents == {"saveAttachment", "decoded", "created", "saveError", "statError"}
PipelineEvents == {"transcribeAudio", "transcribeError", "transcribeOk", "generateTitle", "titleError", "titleOk", "inserted", "insertFailed"}

C4_NoAudio ==
    \A h \in Handlers : ParsedPayload(h) /\ AudioIdx(h) = {} =>
        /\ db = entry[h].db /\ fs = entry[h].fs
        /\ events[h] = <<>>
        /\ Finished(h) => resp[h].status = 201 /\ resp[h].id = <<>>

\* C4 witness: such a request with two attachments, answered while the table holds a record
C4_Witness == \E h \in Handlers : Finished(h) /\ ParsedPayload(h) /\ AudioIdx(h) = {} /\ Len(email[h].attachments) = 2 /\ db # {}

\* C5 (as claimed): every webhook request with a method other than POST gets 405
C5_Always405 == \A h \in Handlers : Finished(h) /\ req[h].route = "webhook" /\ req[h].method # "POST" => resp[h].status = 405

\* C5 (amended): a webhook request with a method other than POST and OPTIONS gets
\* 405; an OPTIONS request is answered 200 by the CORS middleware and never reaches
\* the handler; neither changes the table or the files
C5_NotPost ==
    \A h \in Handlers : req[h].route = "webhook" /\ req[h].method # "POST" /\ pc[h] # "webhook" =>
        /\ Finished(h)
        /\ resp[h].status = (IF req[h].method = "OPTIONS" THEN 200 ELSE 405)
        /\ db = entry[h].db /\ fs = entry[h].fs /\ events[h] = <<>>

\* C5 witness: a GET to the webhook answered while the table holds a record
C5_Witness == \E h \in Handlers : Finished(h) /\ req[h].route = "webhook" /\ req[h].method = "GET" /\ db # {}

\* C6: a POST whose body is not JSON of the EmailData shape is answered 400 at once:
\* no id is generated, no file written, nothing called, no record inserted
C6_Malformed ==
    \A h \in Handlers : Posted(h) /\ body[h] = "malformed" =>
        /\ Finished(h) /\ resp[h].status = 400
        /\ recordingID[h] = <<>> /\ resp[h].id = <<>>
        /\ events[h] = <<>>
        /\ db = entry[h].db /\ fs = entry[h].fs

\* C6 witness: a malformed POST answered while the table holds a record
C6_Witness == \E h \in Handlers : Posted(h) /\ body[h] = "malformed" /\ db # {}

\* C7 (as claimed): a webhook response is non-2xx only for a wrong method or a
\* malformed payload
C7_OnlyMethodOrPayload == \A h \in Handlers : Finished(h) /\ req[h].route = "webhook" /\ resp[h].status \notin 200..299 => req[h].method # "POST" \/ body[h] = "malformed"

\* C7 (amended): a webhook response is non-2xx only for a wrong method (405), a
\* body that cannot be read (500) or a malformed payload (400); once the payload
\* has parsed the response is 201, whatever fails while saving, transcribing,
\* titling or inserting
C7_NonSuccess ==
    \A h \in Handlers : Finished(h) /\ req[h].route = "webhook" =>
        /\ resp[h].status \notin 200..299 =>
            \/ req[h].method # "POST" /\ resp[h].status = 405
            \/ Posted(h) /\ body[h] = "unreadable" /\ resp[h].status = 500
            \/ Posted(h) /\ body[h] = "malformed" /\ resp[h].status = 400
        /\ ParsedPayload(h) => resp[h].status = 201

\* C7 witness: a request answered 201 after a save error, a transcription error and a failed insert
C7_Witness == \E h \in Handlers : Finished(h) /\ resp[h].status = 201 /\ HasEvent(h, "saveError") /\ HasEvent(h, "transcribeError") /\ HasEvent(h, "insertFailed")

\* the messages transcribeAudio fails with
TranscribeErrors == { ErrWhisperNotFound \o NotFound, ErrConvert \o ExitStatus1, ErrWhisperFailed \o ExitStatus1 \o ErrStderr, ErrReadTranscription \o PermissionDenied }

\* C8: when transcribeAudio fails for a saved attachment, generateTitle is never
\* called in that request, the record given to the insert has the placeholder
\* "Transcription failed: <error>" as transcription and "Untitled Voicemail" as
\* title, and the response is 201 with the id
C8_TranscribeFails ==
    \A h \in Handlers : HasEvent(h, "transcribeError") =>
        /\ ~HasEvent(h, "generateTitle")
        /\ recording[h].transcription \in { TranscriptionFailed \o m : m \in TranscribeErrors }
        /\ recording[h].title = UntitledVoicemail
        /\ HasEvent(h, "inserted") => recording[h] \in db
        /\ Finished(h) => resp[h].status = 201 /\ resp[h].id = recording[h].id /\ resp[h].id # <<>>

\* C8 witness: a finished request whose transcription failed and whose record was inserted
C8_Witness == \E h \in Handlers : Finished(h) /\ HasEvent(h, "transcribeError") /\ HasEvent(h, "inserted") /\ recording[h].transcription = TranscriptionFailed \o ErrReadTranscription \o PermissionDenied

\* C9: generateTitle is called if and only if transcribeAudio succeeded with a
\* non-empty transcript; if it is called and fails, or is skipped for an empty
\* transcript, the title is "Untitled Voicemail"; if it succeeds the title is the
\* one it returned
C9_TitleInvoked ==
    \A h \in Handlers : pc[h] \in {"insert", "respond", "done"} /\ (HasEvent(h, "transcribeOk") \/ HasEvent(h, "transcribeError")) =>
        /\ HasEvent(h, "generateTitle") <=> (HasEvent(h, "transcribeOk") /\ recording[h].transcription # <<>>)
        /\ HasEvent(h, "titleError") => recording[h].title = UntitledVoicemail
        /\ HasEvent(h, "transcribeOk") /\ recording[h].transcription = <<>> => recording[h].title = UntitledVoicemail
        /\ \A k \in 1..Len(events[h]) : events[h][k].ev = "titleOk" => recording[h].title = events[h][k].val
        /\ HasEvent(h, "inserted") => recording[h] \in db

\* C9 witness: a finished request whose inserted record carries a generated title
C9_Witness == \E h \in Handlers : Finished(h) /\ HasEvent(h, "titleOk") /\ HasEvent(h, "inserted") /\ recording[h].title = <<"H","i">>

\* C10: when the insert fails after the attachment was saved and enriched, the
\* response is still 201 "success" with the generated id, the table is unchanged
\* and no further attachment of the request is processed
C10_InsertFails ==
    \A h \in Handlers : HasEvent(h, "insertFailed") =>
        /\ db = entry[h].db
        /\ pc[h] \in {"respond", "done"}
        /\ events[h][Len(events[h])].ev = "insertFailed"
        /\ Finished(h) => resp[h].status = 201 /\ resp[h].result = "success" /\ resp[h].id = recording[h].id /\ resp[h].id # <<>>

\* C10 witness: the insert of the first of two audio attachments failed while the table holds a record
C10_Witness == \E h \in Handlers : Finished(h) /\ HasEvent(h, "insertFailed") /\ AudioIdx(h) = {1, 2} /\ EventAtts(h, "insertFailed") = {1} /\ db # {}

\* C11: in every reachable state every record of the table has a non-empty title:
\* "Untitled Voicemail", or the cleaned answer of the title service, whatever the
\* transcription and the title service did
C11_TitleNonEmpty == \A r \in db : r.title # <<>> /\ (r.title = UntitledVoicemail \/ \E c \in TitleContents : r.title = CleanTitle(c))

\* C11 witness: a record was inserted after the title service answered with an
\* empty content, and the table also holds a record with a generated title
C11_Witness ==
    /\ \E h \in Handlers : \E k \in 1..Len(events[h]) : events[h][k] = Event("titleOk", 1, UntitledVoicemail) /\ HasEvent(h, "inserted") /\ recording[h] \in db
    /\ \E r \in db : r.title = <<"H","i">>

\* the fields of a row that are final: none is missing, the file is on disk
Finalized(r) == r.id # <<>> /\ r.phoneNumber # <<>> /\ r.receivedAt # <<>> /\ r.mp3FileName # <<>> /\ r.title # <<>> /\ r.filePath = FilePath(r.id) /\ Exists(fs, r.filePath)

\* what readers can see while requests interleave: rows are final, ids are unique,
\* a list response holds only rows of the table, and the row of a request that
\* has not reached its insert has no title yet and is not in the table
VisibleRowsFinal ==
    /\ \A r \in db : Finalized(r)
    /\ \A r1, r2 \in db : r1.id = r2.id => r1 = r2
    /\ \A h \in Handlers : pc[h] \in {"transcode", "recognize", "title"} => recording[h].title = <<>> /\ recording[h] \notin db
    /\ \A h \in Handlers : HasEvent(h, "inserted") => recording[h] \in db
    /\ \A h \in Handlers : req[h].route = "recordings" /\ Finished(h) =>
        \A i \in 1..Len(resp[h].recordings) : \E r \in db : [r EXCEPT !.receivedAt = resp[h].recordings[i].receivedAt] = resp[h].recordings[i]

\* a step changes the table only by the one insert of a request that stands at
\* its insert, adding that request's final row; no row is changed or removed
SingleInsert ==
    /\ db \subseteq db'
    /\ db' # db => \E h \in Handlers : pc[h] = "insert" /\ pc'[h] = "respond" /\ db' = db \cup {recording[h]} /\ recording'[h] = recording[h] /\ Exists(fs, recording[h].filePath)

\* C12: under any interleaving of webhook, list and play requests a row becomes
\* visible only through one insert, made after its file was written and its
\* transcription and title were set; no reader sees a row with missing or
\* provisional fields, no row is modified after its insert, no two rows share an id
C12_AtomicVisibility == []VisibleRowsFinal /\ [][SingleInsert]_vars

\* C12 witness: a request stands at its insert with the id of a row that another
\* request, accepted while the table was still empty for both, has inserted
C12_Witness == \E h1, h2 \in Handlers : h1 # h2 /\ HasEvent(h1, "inserted") /\ pc[h2] = "insert" /\ recording[h2].id = recording[h1].id /\ entry[h1].db = {} /\ entry[h2].db = {}

\* the attachment directory "./data/mp3s" joined with "<id>.mp3", as filepath.Join
\* cleans it; the sender's file name is no part of it
PathOfId(id) == <<"d","a","t","a","/","m","p","3","s","/">> \o id \o <<".","m","p","3">>

\* C13: every row of the table, and every record a request is building, has
\* filePath equal to the attachment directory joined with "<id>.mp3" for its own
\* id: the path is a function of the id alone, whatever file name the sender gave
C13_PathFromId ==
    /\ \A r \in db : r.filePath = PathOfId(r.id)
    /\ \A h \in Handlers : recording[h] # NoRecording => recording[h].id # <<>> /\ recording[h].filePath = PathOfId(recording[h].id)
    /\ \A p \in DOMAIN fs : Ext(p) = Mp3Ext => \E id \in PossibleIDs : p = PathOfId(id)

\* C13 witness: a row whose attachment was named a.mp3 and whose id came from the clock
C13_Witness == \E r \in db : r.mp3FileName = <<"a",".","m","p","3">> /\ r.id = <<"1">> /\ Exists(fs, r.filePath)

\* C14 (as claimed): for every row of the table a file exists at its filePath whose
\* length is the row's fileSize and whose bytes are the decoded content of the
\* attachment the row was made from, and a play request for an id that was in
\* the table when it arrived is never answered 404
C14_FilesMatchRows ==
    /\ \A r \in db : Exists(fs, r.filePath) /\ Len(fs[r.filePath]) = r.fileSize
    /\ \A h \in Handlers : HasEvent(h, "inserted") => Base64Decode(StdAlphabet, email[h].attachments[idx[h]].content).bytes = fs[recording[h].filePath]
    /\ \A h \in Handlers : req[h].route = "play" /\ req[h].method = "GET" /\ Finished(h) /\ (\E r \in entry[h].db : req[h].path = PlayPrefix \o r.id) => resp[h].status # 404

\* the request of handler h is a GET of the list that was answered with the list
Listed(h) == req[h].route = "recordings" /\ req[h].method = "GET" /\ Finished(h) /\ resp[h].status = 200

\* the instant a receivedAt of a list response denotes
InstantOf(s) == CHOOSE t \in 0..119 : FormatIso(t) = s

\* C15 (as claimed, for tables whose rows all carry a receivedAt the list can
\* parse): a list response holds every stored record, and of two adjacent entries
\* the receivedAt of the first is not before the receivedAt of the second
C15_NewestFirst ==
    \A h \in Handlers : Listed(h) /\ (\A r \in db : ParseLong(r.receivedAt).ok) =>
        /\ { resp[h].recordings[i].id : i \in 1..Len(resp[h].recordings) } = { r.id : r \in db }
        /\ \A i \in 1..(Len(resp[h].recordings) - 1) : InstantOf(resp[h].recordings[i].receivedAt) >= InstantOf(resp[h].recordings[i + 1].receivedAt)

PlayId(h) == SubSeq(req[h].path, Len(PlayPrefix) + 1, Len(req[h].path))

\* C17 (as claimed, for GET requests): play-by-id answers 400 for an empty id, 404
\* for an id that is not in the table, 404 for an id whose file is not on disk,
\* and in every other case streams the file with Content-Type audio/mpeg and
\* Content-Disposition inline; it changes neither the table nor the files
C17_PlayById ==
    \A h \in Handlers : req[h].route = "play" /\ req[h].method = "GET" /\ Finished(h) =>
        /\ db = entry[h].db /\ fs = entry[h].fs
        /\ PlayId(h) = <<>> => resp[h].status = 400
        /\ PlayId(h) # <<>> /\ (\A r \in db : r.id # PlayId(h)) => resp[h].status = 404
        /\ \A r \in db : r.id = PlayId(h) =>
            IF Exists(fs, r.filePath)
            THEN resp[h].status = 200 /\ resp[h].file = fs[r.filePath] /\ resp[h].contentType = "audio/mpeg" /\ resp[h].disposition = "inline"
            ELSE resp[h].status = 404

\* the ways the optional parts of the phone pattern can be present: "+", "1",
\* white space, "(", ")", and the two separators
PhoneShapes == [plus : {0, 1}, one : {0, 1}, gap : 0..2, open : {0, 1}, close : {0, 1}, sep1 : {0, 1}, sep2 : {0, 1}]

\* are the n characters of s from position p digits
AllDigits(s, p, n) == p >= 1 /\ p + n - 1 <= Len(s) /\ \A k \in p..(p + n - 1) : s[k] \in {"0","1","2","3","4","5","6","7","8","9"}

\* is the character of s at position p, if one is taken there, of the set
Takes(s, p, n, set) == n = 0 \/ (p <= Len(s) /\ s[p] \in set)

\* where the three digit groups start when the pattern is laid on s at p in shape k
GroupStarts(p, k) == << p + k.plus + k.one + k.gap + k.open, p + k.plus + k.one + k.gap + k.open + 3 + k.close + k.sep1, p + k.plus + k.one + k.gap + k.open + 3 + k.close + k.sep1 + 3 + k.sep2 >>

\* does the pattern lie on s at p in shape k
Fits(s, p, k) ==
    /\ Takes(s, p, k.plus, {"+"})
    /\ Takes(s, p + k.plus, k.one, {"1"})
    /\ \A i \in 1..k.gap : Takes(s, p + k.plus + k.one + i - 1, 1, {" ", "\t", "\n", "\r", "\f"})
    /\ Takes(s, p + k.plus + k.one + k.gap, k.open, {"("})
    /\ AllDigits(s, GroupStarts(p, k)[1], 3)
    /\ Takes(s, GroupStarts(p, k)[1] + 3, k.close, {")"})
    /\ Takes(s, GroupStarts(p, k)[1] + 3 + k.close, k.sep1, {"-", ".", " ", "\t", "\n", "\r", "\f"})
    /\ AllDigits(s, GroupStarts(p, k)[2], 3)
    /\ Takes(s, GroupStarts(p, k)[2] + 3, k.sep2, {"-", ".", " ", "\t", "\n", "\r", "\f"})
    /\ AllDigits(s, GroupStarts(p, k)[3], 4)

\* the positions of s at which the pattern matches
MatchStarts(s) == { p \in 1..Len(s) : \E k \in PhoneShapes : Fits(s, p, k) }

\* the digit groups of the matches at the leftmost position of s where there is one
LeftmostGroups(s) ==
    IF MatchStarts(s) = {} THEN {}
    ELSE LET p == CHOOSE q \in MatchStarts(s) : \A r \in MatchStarts(s) : q <= r
         IN  { << SubSeq(s, GroupStarts(p, k)[1], GroupStarts(p, k)[1] + 2), SubSeq(s, GroupStarts(p, k)[2], GroupStarts(p, k)[2] + 2), SubSeq(s, GroupStarts(p, k)[3], GroupStarts(p, k)[3] + 3) >> : k \in { j \in PhoneShapes : Fits(s, p, j) } }

\* the leftmost groups of every subject of the single-request runs
SubjectGroups == [s \in UnitSubjects |-> LeftmostGroups(s)]

\* "(AAA) BBB-CCCC"
Formatted(g) == <<"(">> \o g[1] \o <<")", " ">> \o g[2] \o <<"-">> \o g[3]

\* the override case: area code 704 and a last group that ends in 90
Hated(g) == g[1] = <<"7","0","4">> /\ g[3][3] = "9" /\ g[3][4] = "0"

RegexGroups(subject) == FindStringSubmatch(subject)

\* C19: extractPhoneNumber returns "I HATE THIS MAN" if and only if the leftmost
\* match has area code 704 and a last group whose last two digits are 90; for
\* every other match it returns the formatted number
C19_Override ==
    \A h \in Handlers : pc[h] \notin {"idle", "webhook"} /\ SubjectGroups[email[h].subject] # {} =>
        LET g == RegexGroups(email[h].subject)
        IN  /\ g \in SubjectGroups[email[h].subject]
            /\ phoneNumber[h] = <<"I"," ","H","A","T","E"," ","T","H","I","S"," ","M","A","N">> <=> Hated(g)
            /\ ~Hated(g) => phoneNumber[h] = Formatted(g)

\* C19 witness: the record of a voicemail from +1 704.555.1290 is stored
C19_Witness == \E h \in Handlers : email[h].subject = <<"+","1"," ","7","0","4",".","5","5","5",".","1","2","9","0">> /\ \E r \in db : r.phoneNumber = <<"I"," ","H","A","T","E"," ","T","H","I","S"," ","M","A","N">>

\* C20: for every byte sequence B, the empty one included, saving the attachment
\* whose content is the base64 of B and reading the file back gives exactly B;
\* content that is not base64 gives a decode error and creates no file
C20_RoundTrip ==
    \A h \in Handlers : HasEvent(h, "saveAttachment") =>
        LET content == email[h].attachments[1].content
            path == PathOfId(recordingID[h])
        IN  /\ \A b \in UnitByteSeqs : content = Base64Encode(StdAlphabet, b) =>
                /\ HasEvent(h, "decoded")
                /\ ~HasEvent(h, "saveError") => Exists(fs, path) /\ fs[path] = b
            /\ content = <<"A","P","9","B">> /\ ~HasEvent(h, "saveError") => fs[path] = <<0, 255, 65>>
            /\ content = <<"/","w","=","=">> /\ ~HasEvent(h, "saveError") => fs[path] = <<255>>
            /\ content \in UnitBadContents => HasEvent(h, "saveError") /\ ~HasEvent(h, "decoded") /\ ~HasEvent(h, "created") /\ fs = entry[h].fs

\* C20 witness: an attachment with empty content was saved as a file of length zero
\* and its record stored
C20_Witness == \E h \in Handlers : HasEvent(h, "inserted") /\ email[h].attachments[1].content = <<>> /\ Exists(fs, recording[h].filePath) /\ fs[recording[h].filePath] = <<>> /\ recording[h].fileSize = 0

\* the waveform that transcribeAudio makes of the audio file of handler h's record
WavOf(h) == <<"d","a","t","a","/","m","p","3","s","/">> \o recording[h].id \o <<".","w","a","v">>

\* the step in which the recognizer's run of handler h ends and transcribeAudio returns
RecognitionReturns(h) == pc[h] = "recognize" /\ pc'[h] # "recognize"

\* C21: while the recognizer runs the temporary waveform is on disk, and whenever
\* transcribeAudio returns after the recognizer has run, whether recognition
\* succeeded, failed, or the sidecar could not be read, the waveform is gone
C21_WaveformRemoved ==
    /\ [](\A h \in Handlers : pc[h] = "recognize" => Exists(fs, WavOf(h)))
    /\ [][\A h \in Handlers : RecognitionReturns(h) => ~Exists(fs', WavOf(h)) /\ Exists(fs', recording[h].filePath)]_vars
    /\ [](\A h \in Handlers : pc[h] \in {"title", "insert", "respond", "done"} => \A p \in DOMAIN fs : Ext(p) # <<".","w","a","v">>)

\* C21 witness: transcribeAudio has returned the error of the sidecar that could
\* not be read, and the waveform is gone while the audio file is still there
C21_Witness == \E h \in Handlers : recording[h].transcription = TranscriptionFailed \o ErrReadTranscription \o PermissionDenied /\ ~Exists(fs, WavOf(h)) /\ Exists(fs, recording[h].filePath)

\* the characters strings.Trim takes off the title
QuoteChars == {"\"", "'"}

\* a title is clean: not empty, no white space, quote or colon in front, no white
\* space or quote at the end
CleanedUp(t) == t # <<>> /\ t[1] \notin {" ", "\t", "\n", "\r"} \cup QuoteChars \cup {":"} /\ t[Len(t)] \notin {" ", "\t", "\n", "\r"} \cup QuoteChars

\* C22 (as claimed): every title that generateTitle returns for a successful
\* response with at least one choice is non-empty, has no leading or trailing
\* white space, no surrounding quote and no leading colon
C22_TitleClean == \A h \in Handlers : \A k \in 1..Len(events[h]) : events[h][k].ev = "titleOk" => CleanedUp(events[h][k].val)

\* the place of a call or of its result in the order of section 4.1: the save
\* (decode, create and write), the size read-back, the transcription, the title,
\* the insert
StageOf(ev) ==
    CASE ev = "saveAttachment" -> 1
      [] ev = "decoded" -> 2
      [] ev = "created" -> 3
      [] ev \in {"saveError", "statError"} -> 4
      [] ev = "transcribeAudio" -> 5
      [] ev \in {"transcribeError", "transcribeOk"} -> 6
      [] ev = "generateTitle" -> 7
      [] ev \in {"titleError", "titleOk"} -> 8
      [] ev \in {"inserted", "insertFailed"} -> 9

\* the request has asked the table to insert its record
InsertAttempted(h) == HasEvent(h, "inserted") \/ HasEvent(h, "insertFailed")

\* C23: within a webhook request the attachments are taken in list order and, for
\* one attachment, the file write, the size read-back, the transcription, the
\* title generation if any and the insert happen in this order; the insert is
\* attempted only after transcribeAudio, and generateTitle when it was called,
\* have returned, the table gets the record only by that insert, and the
\* response is written only after the insert was attempted
C23_StagesInOrder ==
    \A h \in Handlers : Posted(h) =>
        /\ \A k, l \in 1..Len(events[h]) : k < l =>
              \/ events[h][k].att < events[h][l].att
              \/ events[h][k].att = events[h][l].att /\ StageOf(events[h][k].ev) < StageOf(events[h][l].ev)
        /\ InsertAttempted(h) => (HasEvent(h, "transcribeOk") \/ HasEvent(h, "transcribeError")) /\ (HasEvent(h, "generateTitle") => HasEvent(h, "titleOk") \/ HasEvent(h, "titleError"))
        /\ HasEvent(h, "transcribeAudio") => HasEvent(h, "created") /\ Exists(fs, recording[h].filePath) /\ recording[h].fileSize = Len(fs[recording[h].filePath])
        /\ recording[h] \in db \ entry[h].db => HasEvent(h, "inserted")
        /\ ~Finished(h) => resp[h] = NoResponse
        /\ Finished(h) /\ HasEvent(h, "transcribeAudio") => resp[h].status = 201 /\ StageOf(events[h][Len(events[h])].ev) = 9
        /\ pc[h] = "respond" /\ HasEvent(h, "transcribeAudio") => InsertAttempted(h)

\* C23 witness: a request has answered after its first attachment failed at the
\* size read-back and its second went through every stage
C23_Witness ==
    \E h \in Handlers : Finished(h) /\ resp[h].status = 201 /\
        [k \in 1..Len(events[h]) |-> <<events[h][k].ev, events[h][k].att>>] =
            << <<"saveAttachment", 1>>, <<"decoded", 1>>, <<"created", 1>>, <<"statError", 1>>,
               <<"saveAttachment", 2>>, <<"decoded", 2>>, <<"created", 2>>, <<"transcribeAudio", 2>>, <<"transcribeOk", 2>>,
               <<"generateTitle", 2>>, <<"titleOk", 2>>, <<"inserted", 2>> >>

\* the request of handler h saved an audio attachment and read its size back
SavedAudio(h) == Posted(h) /\ HasEvent(h, "transcribeAudio")

\* the bytes that the attachment the request saved decodes to
OwnBytes(h) == Base64Decode(StdAlphabet, email[h].attachments[idx[h]].content).bytes

\* C24 (as claimed): two webhook requests that run at the same time and each save
\* an audio attachment have different ids, write different audio files and
\* different waveforms, and the file of each holds the bytes of its own attachment
C24_DisjointFiles ==
    \A h1, h2 \in Handlers : h1 # h2 /\ SavedAudio(h1) /\ SavedAudio(h2) =>
        /\ recording[h1].id # recording[h2].id
        /\ recording[h1].filePath # recording[h2].filePath
        /\ WavPath(recording[h1].filePath) # WavPath(recording[h2].filePath)
        /\ Exists(fs, recording[h1].filePath) /\ fs[recording[h1].filePath] = OwnBytes(h1)

\* the requests of two handlers carried the same payload
SamePayload(h1, h2) == email[h1].subject = email[h2].subject /\ email[h1].attachments = email[h2].attachments

\* C25 (as claimed): two webhook requests with the same payload, each of which
\* saved its audio attachment, are answered with two different non-empty ids
\* and leave two files, one for each id
C25_NotIdempotent ==
    \A h1, h2 \in Handlers : h1 # h2 /\ Finished(h1) /\ Finished(h2) /\ SavedAudio(h1) /\ SavedAudio(h2) /\ SamePayload(h1, h2) =>
        /\ resp[h1].id # <<>> /\ resp[h2].id # <<>>
        /\ resp[h1].id # resp[h2].id
        /\ Cardinality({ p \in DOMAIN fs : Ext(p) = Mp3Ext }) = 2

\* the failure conditions of the title service: transport error, unreadable
\* body, status other than 200, malformed body, no choice
TitleFailure(r) == ~r.sent \/ ~r.readOk \/ r.status # 200 \/ ~r.parseOk \/ r.choices = <<>>

\* the sentinel title, written out
Sentinel == <<"U","n","t","i","t","l","e","d"," ","V","o","i","c","e","m","a","i","l">>

\* C26: whatever the title service answers to a request that calls it,
\* generateTitle returns "Untitled Voicemail" with an error on a transport error,
\* an unreadable body, a status other than 200, a malformed body and a response
\* without choices, and "Untitled Voicemail" without an error for a content that
\* is empty after the clean-up; it never returns an empty title, and the title
\* the request stores after the call is never empty
C26_TitleSentinel ==
    \A h \in Handlers :
        /\ pc[h] = "title" =>
            \A r \in UnitTitleResponses :
                /\ TitleFailure(r) => generateTitle(r) = [title |-> Sentinel, err |-> TRUE]
                /\ ~TitleFailure(r) /\ r.choices[1] \in { <<>>, <<"'","'">> } => generateTitle(r) = [title |-> Sentinel, err |-> FALSE]
                /\ generateTitle(r).title # <<>>
        /\ \A k \in 1..Len(events[h]) :
            /\ events[h][k].ev = "titleError" => events[h][k].val = Sentinel
            /\ events[h][k].ev = "titleOk" => events[h][k].val # <<>>
        /\ HasEvent(h, "generateTitle") => recording[h].title # <<>>
        /\ HasEvent(h, "titleError") => recording[h].title = Sentinel

\* C26 witness: the title service failed and the record was stored with the sentinel
C26_Witness == \E h \in Handlers : Finished(h) /\ HasEvent(h, "titleError") /\ recording[h].title = Sentinel /\ recording[h] \in db /\ recording[h].transcription = <<"h","i">>

\* the handler is waiting for an external collaborator: ffmpeg, whisper-cli or
\* the title service
AwaitsCollaborator(h) == pc[h] \in {"transcode", "recognize", "title"}

\* C27: a webhook request that was accepted is answered in the end provided no
\* call of ffmpeg, of the recognizer or of the title service hangs for ever;
\* while the recognizer runs nothing has been answered, the record is not in the
\* table and the audio file is on disk, and only the recognizer's return ends
\* that, so a request whose recognizer never returns is never answered and
\* never inserts its record
C27_RespondsUnlessHung ==
    /\ \A h \in SeqHandlers : []<>(~AwaitsCollaborator(h)) => ((pc[h] = "webhook") ~> Finished(h))
    /\ \A h \in SeqHandlers : <>[](pc[h] = "recognize") => [](~Finished(h) /\ ~InsertAttempted(h) /\ db = {})
    /\ [](\A h \in Handlers : pc[h] = "recognize" => resp[h] = NoResponse /\ ~InsertAttempted(h) /\ recording[h] \notin db /\ Exists(fs, recording[h].filePath))
    /\ [][\A h \in Handlers : pc[h] = "recognize" => pc'[h] \in {"recognize", "title", "insert"}]_vars

\* C27 witness: every collaborator has returned, the record is stored and the
\* request is answered
C27_Witness == \E h \in Handlers : Finished(h) /\ resp[h].status = 201 /\ HasEvent(h, "titleOk") /\ HasEvent(h, "inserted") /\ recording[h].transcription = <<"h","i">> /\ recording[h] \in db

\* the receivedAt that webhookHandler writes when the payload has none, for the
\* instants at which a request of the run can arrive
DefaultedAt == { <<"2","0","0","6","-","0","1","-","0","2"," ","1","5",":","0","4",":","0">> \o <<d>> : d \in {"1", "2", "3"} }

\* C28 (as claimed): a record whose payload had no receivedAt is listed with the
\* time of its ingestion, the value that was stored for it, on every list call
C28_DefaultListedAsStored ==
    \A h \in Handlers : Listed(h) =>
        \A r \in db : r.receivedAt \in DefaultedAt =>
            \E i \in 1..Len(resp[h].recordings) : resp[h].recordings[i].id = r.id /\ resp[h].recordings[i].receivedAt = r.receivedAt

\* the files the request of handler h has left on disk that were not there when
\* it arrived
FilesLeft(h) == DOMAIN fs \ DOMAIN entry[h].fs

\* C29 (as claimed): once a webhook request is answered, every file it created
\* in the attachment directory is the file of a record of the table, whether the
\* write, the size read-back or the insert failed
C29_NoOrphanFiles == \A h \in Handlers : Posted(h) /\ Finished(h) => \A p \in FilesLeft(h) : \E r \in db : r.filePath = p

\* the temporary files of transcribeAudio: the waveform and the sidecar transcript
IsTemporary(p) == Ext(p) \in { <<".","w","a","v">>, <<".","t","x","t">> }

\* C30 (as claimed): when transcribeAudio has returned, on whichever path, no
\* waveform and no sidecar transcript is left on disk
C30_NoTemporaryLeft == \A h \in Handlers : pc[h] \in {"title", "insert", "respond", "done"} => \A p \in DOMAIN fs : ~IsTemporary(p)

====
